---- MODULE Spec2Model ----
(***************************************************************************)
(* Verification model of the document chunker (chunkDocument, in its two   *)
(* variants) and of the conversational agent graph (createChatAgent,       *)
(* chatCompletion) of the RAG application.                                 *)
(***************************************************************************)
EXTENDS Integers, Sequences, FiniteSets, TLC

VARIABLES
    \* ---- chunkDocument ----
    variant,       \* "server" (the server-only copy) or "client" (lib/utils/fileProcessing.ts)
    text,          \* document.content, a sequence of characters
    chunkSize,     \* config.chunkSize
    chunkOverlap,  \* config.chunkOverlap
    startIndex,    \* let startIndex
    chunkIndex,    \* let chunkIndex
    chunks,        \* const chunks: DocumentChunk[]
    cpc,           \* position in chunkDocument: "entry", "loop", "done"
    \* ---- chatCompletion / agent graph ----
    request,       \* the ChatCompletionRequest and the process configuration
    messages,      \* state.messages of the graph (MessagesAnnotation)
    pc,            \* position in chatCompletion: "start", "agent", "tools", "end", "done"
    response,      \* the ChatCompletionResponse returned to the caller
    trace,         \* the graph nodes visited in this turn, in order
    nextCallId,    \* the next fresh tool-call id the model hands out
    \* ---- EmbeddingsClient.embedTexts ----
    texts,         \* the texts handed to embedTexts
    batchSize,     \* this.config.batchSize
    validTexts,    \* const validTexts
    embedI,        \* the loop variable i
    embeddings,    \* const embeddings: number[][]
    epc,           \* position in embedTexts: "idle", "entry", "loop", "awaiting", "delay",
                   \* "returned", "threw"
    embedLog,      \* what embedTexts has done with the capability and the timer, in order
    \* ---- uploadDocument ----
    file,          \* formData.get('file') and what validation and extraction make of it
    document,      \* the Document of processUploadedFile: its id, status, metadata.chunkCount
    docChunks,     \* const chunks = chunkDocument(document, ...): the contents of the chunks
    chunksWithEmbeddings,  \* const chunksWithEmbeddings
    storedIds,     \* what storeDocumentChunks came to: not called, threw, or the ids it returned
    uploadResponse,\* the UploadDocumentResponse returned to the caller
    upc,           \* position in uploadDocument: "idle", "start", "embedding", "store", "done"
    uploadCalls,   \* the functions uploadDocument has called and that have returned, in order
    \* ---- the vector index ----
    pineconeIndex, \* the chunk records the Pinecone index holds
    lastOp,        \* the last call of deleteDocument or retrieve_documents: input and result
    indexCalls,    \* the calls that call has made to the vector index
    deletedIds,    \* the document ids whose deleteDocumentChunks has returned
    \* ---- chatCompletion: the messages handed to the agent ----
    recentMessages,\* the chat client's recentMessages: the role and content of each
    context,       \* request.context, a sequence of characters
    currentMessage,\* request.message, a sequence of characters
    contextMessages, \* const contextMessages: the non-blank lines of the context
    lineI,         \* the position of the for loop in contextMessages
    turnMessages,  \* const messages: BaseMessage[]
    ctxPc,         \* position: "idle", "entry", "lines", "push", "invoke"
    \* ---- PineconeClient.initializeVectorStore ----
    vectorStore,   \* this.vectorStore: "null" or "store"
    callPc,        \* for every caller, the position of its call of initializeVectorStore:
                   \* "idle", "connecting", "returned", "threw"
    established,   \* the connections established since the last clearCache
    overlapped,    \* since the last clearCache, two calls have been connecting at a time
    callsStarted,  \* the calls of initializeVectorStore made so far
    resets         \* the calls of clearCache made so far

chunkVars == <<variant, text, chunkSize, chunkOverlap, startIndex, chunkIndex, chunks, cpc>>
agentVars == <<request, messages, pc, response, trace, nextCallId>>
embedVars == <<texts, batchSize, validTexts, embedI, embeddings, epc, embedLog>>
indexVars == <<pineconeIndex, lastOp, indexCalls, deletedIds>>
uploadVars ==
    <<file, document, docChunks, chunksWithEmbeddings, storedIds, uploadResponse, upc, uploadCalls>>
contextVars ==
    <<recentMessages, context, currentMessage, contextMessages, lineI, turnMessages, ctxPc>>
connectVars == <<vectorStore, callPc, established, overlapped, callsStarted, resets>>
pipelineVars == <<texts, batchSize, validTexts, embedI, embeddings, epc, embedLog,
                  file, document, docChunks, chunksWithEmbeddings, storedIds, uploadResponse, upc,
                  uploadCalls,
                  pineconeIndex, lastOp, indexCalls, deletedIds>>
vars == <<variant, text, chunkSize, chunkOverlap, startIndex, chunkIndex, chunks, cpc,
          request, messages, pc, response, trace, nextCallId,
          texts, batchSize, validTexts, embedI, embeddings, epc, embedLog,
          file, document, docChunks, chunksWithEmbeddings, storedIds, uploadResponse, upc,
          uploadCalls,
          pineconeIndex, lastOp, indexCalls, deletedIds,
          recentMessages, context, currentMessage, contextMessages, lineI, turnMessages, ctxPc,
          vectorStore, callPc, established, overlapped, callsStarted, resets>>

\* ---------------------------------------------------------------- bounds
\* Longest document content explored.
MaxLen == 4
\* Largest chunkSize explored (the smallest is 1).
MaxChunkSize == 3
\* Largest chunkOverlap explored (reaches and exceeds chunkSize).
MaxOverlap == 3

\* ---------------------------------------------------------------- helpers
Min(a, b) == IF a <= b THEN a ELSE b
Max(a, b) == IF a >= b THEN a ELSE b

Range(s) == {s[i] : i \in 1..Len(s)}

\* The characters a document is made of: a letter, a space, a line feed, a full stop.
LF == "\n"
Chars == {"a", " ", LF, "."}

\* All character sequences of length at most n.
RECURSIVE TextsUpTo(_)
TextsUpTo(n) ==
    IF n = 0 THEN {<<>>}
    ELSE LET shorter == TextsUpTo(n - 1)
         IN  shorter \cup {Append(t, c) : t \in {s \in shorter : Len(s) = n - 1}, c \in Chars}

\* String.prototype.substring(a, b) on 0-based positions.
Substring(t, a, b) ==
    LET lo == Max(0, Min(Min(a, b), Len(t)))
        hi == Max(0, Min(Max(a, b), Len(t)))
    IN  SubSeq(t, lo + 1, hi)

\* Characters String.prototype.trim() removes.
IsWhitespace(c) == c \in {" ", LF}

RECURSIVE TrimStart(_)
TrimStart(t) ==
    IF t # <<>> /\ IsWhitespace(Head(t)) THEN TrimStart(Tail(t)) ELSE t

RECURSIVE TrimEnd(_)
TrimEnd(t) ==
    IF t # <<>> /\ IsWhitespace(t[Len(t)]) THEN TrimEnd(SubSeq(t, 1, Len(t) - 1)) ELSE t

\* String.prototype.trim()
Trim(t) == TrimEnd(TrimStart(t))

\* String.prototype.lastIndexOf(sep, fromIndex): the largest 0-based position
\* <= fromIndex at which sep occurs, or -1.
LastIndexOf(t, sep, fromIndex) ==
    LET last == Max(-1, Min(Max(fromIndex, 0), Len(t) - Len(sep)))
        OccursAt(i) == SubSeq(t, i + 1, i + Len(sep)) = sep
    IN  CHOOSE i \in (-1)..last :
            /\ i = -1 \/ OccursAt(i)
            /\ \A j \in (i + 1)..last : ~OccursAt(j)

\* config.separators (the default list).
Separators == << <<LF, LF>>, <<LF>>, <<".", " ">>, <<" ">>, <<>> >>

\* The for-loop over the separators: bestBreak after the separators from
\* position k on have been tried, given bestBreak so far.
RECURSIVE BestBreakFrom(_, _, _, _, _)
BestBreakFrom(t, start, endIdx, k, bestBreak) ==
    IF k > Len(Separators) THEN bestBreak
    ELSE LET separator == Separators[k]
             lastOccurrence == LastIndexOf(t, separator, endIdx)
         IN  IF lastOccurrence > start /\ lastOccurrence > bestBreak
             THEN BestBreakFrom(t, start, endIdx, k + 1, lastOccurrence + Len(separator))
             ELSE BestBreakFrom(t, start, endIdx, k + 1, bestBreak)

\* endIndex of the window that starts at start: the candidate end, moved to
\* the best break when the candidate end lies before the end of the text.
EndIndexOf(t, size, start) ==
    LET candidate == Min(start + size, Len(t))
    IN  IF candidate < Len(t)
        THEN LET bestBreak == BestBreakFrom(t, start, candidate, 1, -1)
             IN  IF bestBreak > start THEN bestBreak ELSE candidate
        ELSE candidate

\* createChunkMetadata with endChar taken as the exclusive end of the range.
MakeChunkExclusiveEnd(content, startChar, endChar, index) ==
    [content |-> content, startChar |-> startChar, endChar |-> endChar + 1, index |-> index]

\* createChunkMetadata called with the two ends of the range in the wrong order.
MakeChunkSwappedRange(content, startChar, endChar, index) ==
    [content |-> content, startChar |-> endChar, endChar |-> startChar, index |-> index]

\* createChunkMetadata + the DocumentChunk literal (the uuid and the fields
\* copied from the document are left out).
MakeChunk(content, startChar, endChar, index) ==
    [content |-> content, startChar |-> startChar, endChar |-> endChar, index |-> index]

\* The advance without the Math.max(startIndex + 1, ...) floor.
NextStartNoFloor(start, endIdx, overlap) == endIdx - overlap

\* The advance that takes endIndex for the last position of the window and
\* goes on from the position after it.
NextStartPastEnd(start, endIdx, overlap) ==
    IF start + 1 >= endIdx + 1 - overlap THEN start + 1 ELSE endIdx + 1 - overlap

\* "Move to next chunk with overlap", server copy.
NextStartServer(start, endIdx, overlap) == Max(start + 1, endIdx - overlap)

\* "Move start index for next chunk with overlap", fileProcessing.ts.
NextStartClient(start, endIdx, overlap) ==
    IF endIdx - overlap >= endIdx THEN endIdx ELSE endIdx - overlap

NextStart(v, start, endIdx, overlap) ==
    IF v = "server" THEN NextStartServer(start, endIdx, overlap)
    ELSE NextStartClient(start, endIdx, overlap)

\* The default config of chunkDocument.
DefaultChunkSize == 1500
DefaultChunkOverlap == 200

\* The content length of the document of the upload example.
HandbookLength == 45000

\* Contents of that length: letters only, and prose (words of nine letters,
\* a sentence end every hundred characters, a line end every thousand).
HandbookLetters == <<>> \o [i \in 1..HandbookLength |-> "a"]
HandbookProse ==
    <<>> \o [i \in 1..HandbookLength |->
                IF i % 1000 = 0 THEN LF
                ELSE IF i % 100 = 99 THEN "."
                ELSE IF i % 10 = 0 THEN " "
                ELSE "a"]

\* document.content of the document of the upload example. Its 45,000
\* characters are not kept in the state: there the variable text holds which
\* of the two contents the document has.
HandbookContent(kind) == IF kind = "letters" THEN HandbookLetters ELSE HandbookProse

\* ---------------------------------------------------------------- chunkDocument
\* A call of chunkDocument(document, config) of variant v.
ChunkInitOf(variants) ==
    /\ variant \in variants
    /\ text \in TextsUpTo(MaxLen)
    /\ chunkSize \in 1..MaxChunkSize
    /\ chunkOverlap \in 0..MaxOverlap
    /\ startIndex = 0
    /\ chunkIndex = 0
    /\ chunks = <<>>
    /\ cpc = "entry"

\* Most parts (separators and letters) of a document put together from parts.
MaxParts == 4

\* The parts: the separators of the default list that have characters, and a
\* letter.
TextParts == {Separators[k] : k \in 1..(Len(Separators) - 1)} \cup {<<"a">>}

\* The contents of at most n parts.
RECURSIVE TextsOfParts(_)
TextsOfParts(n) ==
    IF n = 0 THEN {<<>>}
    ELSE LET shorter == TextsOfParts(n - 1)
         IN  shorter \cup {t \o part : t \in shorter, part \in TextParts}

\* if (text.length <= chunkSize) { push the whole text as chunk 0; return }
\* otherwise enter the while loop with startIndex = 0, chunkIndex = 0.
\* content is document.content.
ChunkEntryOn(content) ==
    /\ cpc = "entry"
    /\ IF Len(content) <= chunkSize
       THEN /\ chunks' = <<MakeChunk(content, 0, Len(content) - 1, 0)>>
            /\ cpc' = "done"
       ELSE /\ chunks' = chunks
            /\ cpc' = "loop"
    /\ UNCHANGED <<variant, text, chunkSize, chunkOverlap, startIndex, chunkIndex>>
    /\ UNCHANGED agentVars
    /\ UNCHANGED pipelineVars
    /\ UNCHANGED contextVars
    /\ UNCHANGED connectVars

\* One iteration of while (startIndex < text.length).
ChunkLoopOn(content) ==
    /\ cpc = "loop"
    /\ startIndex < Len(content)
    /\ Len(chunks) <= Max(MaxLen, Len(content))
    /\ LET endIndex == EndIndexOf(content, chunkSize, startIndex)
           chunkContent == Trim(Substring(content, startIndex, endIndex))
           nextStart == NextStart(variant, startIndex, endIndex, chunkOverlap)
       IN  /\ IF Len(chunkContent) > 0
              THEN /\ chunks' = Append(chunks,
                                   MakeChunk(chunkContent, startIndex, endIndex - 1, chunkIndex))
                   /\ chunkIndex' = chunkIndex + 1
              ELSE /\ chunks' = chunks
                   /\ chunkIndex' = chunkIndex
           /\ startIndex' = nextStart
           /\ cpc' = IF nextStart >= Len(content) THEN "done" ELSE "loop"
    /\ UNCHANGED <<variant, text, chunkSize, chunkOverlap>>
    /\ UNCHANGED agentVars
    /\ UNCHANGED pipelineVars
    /\ UNCHANGED contextVars
    /\ UNCHANGED connectVars

\* chunkDocument on a document whose content is the variable text.
ChunkEntry == ChunkEntryOn(text)
ChunkLoop == ChunkLoopOn(text)

\* chunkDocument on the document of the upload example.
HandbookEntry == ChunkEntryOn(HandbookContent(text))
HandbookLoop == ChunkLoopOn(HandbookContent(text))

\* ---------------------------------------------------------------- agent: data
\* Most THINK steps (calls of the agent node) explored in one turn.
MaxThinkSteps == 3
\* Most tool calls the model requests in one turn, all THINK steps together.
MaxToolCalls == 2
\* Most documents a retrieval returns.
MaxDocs == 3

\* The names of ragTools, in order.
RagToolNames == <<"retrieve_documents", "search_by_source", "get_knowledge_base_info",
                  "contextualize_question", "generate_image">>

\* A tool name that is not in ragTools.
UnknownToolName == "web_search"

\* The tool names the model asks for in the turns explored: a retrieval, a
\* tool that neither retrieves nor draws, the image tool, and a name that is no
\* tool.
RequestedNames ==
    {"retrieve_documents", "get_knowledge_base_info", "generate_image", UnknownToolName}

RetrievalNames == {"retrieve_documents", "search_by_source"}

\* getToolByName: the position of the tool in ragTools, 0 when there is none.
GetToolByName(name) ==
    IF \E i \in 1..Len(RagToolNames) : RagToolNames[i] = name
    THEN CHOOSE i \in 1..Len(RagToolNames) : RagToolNames[i] = name
    ELSE 0

\* Text contents of a message: empty, whitespace only, or real text.
BlankTexts == {"", " "}
AITexts == {" ", "answer"}

\* content.trim() of a message text.
TrimText(c) == IF c \in BlankTexts THEN "" ELSE c

NoJson == [imageUrl |-> 0, prompt |-> 0, documents |-> <<>>]

HumanMessage(c) ==
    [type |-> "human", content |-> c, has_tool_calls |-> FALSE, tool_calls |-> <<>>,
     tool_call_id |-> 0, name |-> "", json |-> NoJson]

\* An AIMessage; has_tool_calls says whether additional_kwargs.tool_calls is set.
AIMessage(c, has, calls) ==
    [type |-> "ai", content |-> c, has_tool_calls |-> has, tool_calls |-> calls,
     tool_call_id |-> 0, name |-> "", json |-> NoJson]

\* A ToolMessage; content is "json" when it is the JSON text of json, and an
\* error text otherwise.
ToolMessage(c, id, name, json) ==
    [type |-> "tool", content |-> c, has_tool_calls |-> FALSE, tool_calls |-> <<>>,
     tool_call_id |-> id, name |-> name, json |-> json]

ErrorText == "Error: tool failed"
NotFoundText == "Error: tool not found"

\* The lines of request.context. A line is its prefix up to the first colon
\* and the rest; a blank line has neither.
ContextLine(prefix, body) == [prefix |-> prefix, body |-> body]

Contexts ==
    { <<>>,
      <<ContextLine("user:", "question"), ContextLine("", " "),
        ContextLine("system:", "note"), ContextLine("assistant:", "answer")>> }

\* context.split('\n').filter(line => line.trim()), then one message per
\* line that starts with user: or assistant:.
RECURSIVE ParseContext(_)
ParseContext(lines) ==
    IF lines = <<>> THEN <<>>
    ELSE LET line == Head(lines)
             rest == ParseContext(Tail(lines))
         IN  IF line.prefix = "" /\ TrimText(line.body) = "" THEN rest
             ELSE IF line.prefix = "user:" THEN <<HumanMessage(TrimText(line.body))>> \o rest
             ELSE IF line.prefix = "assistant:"
                  THEN <<AIMessage(TrimText(line.body), FALSE, <<>>)>> \o rest
             ELSE rest

NoResponse ==
    [kind |-> "none", success |-> FALSE, message |-> "", sources |-> <<>>,
     imageUrl |-> 0, imageMetadata |-> 0, error |-> ""]

\* ---------------------------------------------------------------- agent: graph
\* shouldContinue: the conditional edge after the agent node.
ShouldContinue(msgs) ==
    IF Len(msgs) > 0 /\ msgs[Len(msgs)].has_tool_calls THEN "tools" ELSE "__end__"

\* What a call of a tool can come to: the tool returns (a retrieval with n
\* documents), throws, or its capability times out (which it throws as well).
OutcomesFor(name) ==
    IF GetToolByName(name) = 0 THEN {[kind |-> "notfound", ndocs |-> 0]}
    ELSE IF name \in RetrievalNames
         THEN {[kind |-> "ok", ndocs |-> n] : n \in {0, MaxDocs}}
              \cup {[kind |-> k, ndocs |-> 0] : k \in {"error", "timeout"}}
    ELSE {[kind |-> k, ndocs |-> 0] : k \in {"ok", "error", "timeout"}}

\* What a tool returns for the call: retrievals their documents, generate_image
\* the URL of the image made for this call and the prompt it was made from.
ToolOutput(call, outcome) ==
    IF call.name \in RetrievalNames
    THEN [imageUrl |-> 0, prompt |-> 0,
          documents |-> [k \in 1..outcome.ndocs |-> <<call.id, k>>]]
    ELSE IF call.name = "generate_image"
         THEN [imageUrl |-> call.id, prompt |-> call.id, documents |-> <<>>]
    ELSE NoJson

\* ToolNode, one call: the tool is looked up by name and run; whatever it
\* throws, a missing tool included, becomes a ToolMessage with the error text.
RunTool(call, outcome) ==
    IF GetToolByName(call.name) = 0
    THEN ToolMessage(NotFoundText, call.id, call.name, NoJson)
    ELSE IF outcome.kind = "ok"
         THEN ToolMessage("json", call.id, call.name, ToolOutput(call, outcome))
    ELSE ToolMessage(ErrorText, call.id, call.name, NoJson)

\* ToolNode that lets go of a call whose tool throws: no message for it.
ToolNodeDropFailures(calls, outcomes) ==
    LET all == [i \in 1..Len(calls) |-> RunTool(calls[i], outcomes[i])]
        IsResult(m) == m.content = "json"
    IN  SelectSeq(all, IsResult)

\* ToolNode: one ToolMessage per tool call of the last message, in the order
\* of the calls.
ToolNodeInvoke(calls, outcomes) ==
    [i \in 1..Len(calls) |-> RunTool(calls[i], outcomes[i])]

\* The tool-call lists the model can answer with when next is the next fresh id.
CallLists(next) ==
    UNION {[1..n -> RequestedNames] : n \in 0..(MaxToolCalls - (next - 1))}

ThinkSteps == Cardinality({i \in 1..Len(trace) : trace[i] = "agent"})

\* ---------------------------------------------------------------- agent: extraction
\* The loop from the end of finalMessages for the last AIMessage with text:
\* its position, 0 when there is none.
LastAIMessage(msgs) ==
    LET hits == {i \in 1..Len(msgs) :
                    msgs[i].type = "ai" /\ TrimText(msgs[i].content) # ""}
    IN  IF hits = {} THEN 0 ELSE CHOOSE i \in hits : \A j \in hits : j <= i

\* The lookup of the tool message by position: the first tool message, whatever
\* call it answers.
FindFirstToolMessage(msgs, id) ==
    LET hits == {i \in 1..Len(msgs) : msgs[i].type = "tool"}
    IN  IF hits = {} THEN 0 ELSE CHOOSE i \in hits : \A j \in hits : i <= j

\* finalMessages.findIndex(m => 'tool_call_id' in m && m.tool_call_id === id),
\* 0 when there is none.
FindToolMessage(msgs, id) ==
    LET hits == {i \in 1..Len(msgs) : msgs[i].type = "tool" /\ msgs[i].tool_call_id = id}
    IN  IF hits = {} THEN 0 ELSE CHOOSE i \in hits : \A j \in hits : i <= j

\* All tool calls of the messages that carry tool calls, in scanning order.
RECURSIVE AllToolCalls(_)
AllToolCalls(msgs) ==
    IF msgs = <<>> THEN <<>>
    ELSE (IF Head(msgs).has_tool_calls THEN Head(msgs).tool_calls ELSE <<>>)
         \o AllToolCalls(Tail(msgs))

\* The image of one generate_image call: the JSON of its tool message when it
\* parses and has an imageUrl, NoJson otherwise.
ImageOfCall(msgs, call) ==
    LET toolMessageIndex == FindToolMessage(msgs, call.id)
    IN  IF toolMessageIndex # 0
           /\ msgs[toolMessageIndex].content = "json"
           /\ msgs[toolMessageIndex].json.imageUrl # 0
        THEN msgs[toolMessageIndex].json
        ELSE NoJson

\* The scan for image generation: the image found last wins.
RECURSIVE ExtractImage(_, _, _)
ExtractImage(msgs, calls, found) ==
    IF calls = <<>> THEN found
    ELSE LET call == Head(calls)
             image == IF call.name = "generate_image" THEN ImageOfCall(msgs, call) ELSE NoJson
         IN  ExtractImage(msgs, Tail(calls), IF image.imageUrl # 0 THEN image ELSE found)

\* sources of the response ("TODO: Extract sources from tool calls").
ExtractSources(msgs) == <<>>

\* The response chatCompletion builds from the messages the graph returned.
BuildResponse(msgs) ==
    LET last == LastAIMessage(msgs)
        image == ExtractImage(msgs, AllToolCalls(msgs), NoJson)
    IN  IF last # 0
        THEN [kind |-> "answer", success |-> TRUE, message |-> msgs[last].content,
              sources |-> ExtractSources(msgs),
              imageUrl |-> image.imageUrl, imageMetadata |-> image.prompt, error |-> ""]
        ELSE [kind |-> "noanswer", success |-> FALSE,
              message |-> "Sorry, I could not generate a proper response.",
              sources |-> <<>>, imageUrl |-> 0, imageMetadata |-> 0,
              error |-> "No valid response from agent"]

InvalidResponse ==
    [kind |-> "invalid", success |-> FALSE, message |-> "", sources |-> <<>>,
     imageUrl |-> 0, imageMetadata |-> 0, error |-> "Invalid input"]

TestModeResponse ==
    [kind |-> "test", success |-> TRUE, message |-> "TEST MODE", sources |-> <<>>,
     imageUrl |-> 0, imageMetadata |-> 0, error |-> ""]

FailedResponse ==
    [kind |-> "failed", success |-> FALSE, message |-> "Failed to generate response",
     sources |-> <<>>, imageUrl |-> 0, imageMetadata |-> 0, error |-> "Unknown error occurred"]

\* ---------------------------------------------------------------- chatCompletion
AgentInit ==
    /\ request \in [valid : BOOLEAN, testMode : BOOLEAN, context : Contexts]
    /\ messages = <<>>
    /\ pc = "start"
    /\ response = NoResponse
    /\ trace = <<>>
    /\ nextCallId = 1

\* chatCompletion up to agent.invoke: validation, test mode, the messages.
StartTurn ==
    /\ pc = "start"
    /\ IF ~request.valid
       THEN /\ response' = InvalidResponse
            /\ pc' = "done"
            /\ messages' = messages
       ELSE IF request.testMode
       THEN /\ response' = TestModeResponse
            /\ pc' = "done"
            /\ messages' = messages
       ELSE /\ response' = response
            /\ pc' = "agent"
            /\ messages' = ParseContext(request.context) \o <<HumanMessage("question")>>
    /\ UNCHANGED <<request, trace, nextCallId>>
    /\ UNCHANGED chunkVars
    /\ UNCHANGED pipelineVars
    /\ UNCHANGED contextVars
    /\ UNCHANGED connectVars

\* The agent node (callModel) and the conditional edge after it: the model
\* answers with a text and, possibly, tool calls with fresh ids.
CallModel ==
    /\ pc = "agent"
    /\ ThinkSteps < MaxThinkSteps
    /\ \E c \in AITexts, has \in BOOLEAN, names \in CallLists(nextCallId) :
          /\ ~has => names = <<>>
          /\ LET calls == [i \in 1..Len(names) |-> [id |-> nextCallId + i - 1, name |-> names[i]]]
                 answer == AIMessage(c, has, calls)
             IN  /\ messages' = Append(messages, answer)
                 /\ nextCallId' = nextCallId + Len(names)
                 /\ pc' = IF ShouldContinue(messages') = "tools" THEN "tools" ELSE "end"
                 /\ trace' = IF ShouldContinue(messages') = "tools"
                             THEN Append(trace, "agent")
                             ELSE trace \o <<"agent", "__end__">>
    /\ UNCHANGED <<request, response>>
    /\ UNCHANGED chunkVars
    /\ UNCHANGED pipelineVars
    /\ UNCHANGED contextVars
    /\ UNCHANGED connectVars

\* The agent node when the model capability fails: the error leaves
\* agent.invoke and reaches the catch of chatCompletion.
CallModelFails ==
    /\ pc = "agent"
    /\ ThinkSteps < MaxThinkSteps
    /\ trace' = Append(trace, "agent")
    /\ response' = FailedResponse
    /\ pc' = "done"
    /\ UNCHANGED <<request, messages, nextCallId>>
    /\ UNCHANGED chunkVars
    /\ UNCHANGED pipelineVars
    /\ UNCHANGED contextVars
    /\ UNCHANGED connectVars

\* The tools node and the edge back to the agent node.
CallTools ==
    /\ pc = "tools"
    /\ LET calls == messages[Len(messages)].tool_calls
       IN  \E outcomes \in [1..Len(calls) -> UNION {OutcomesFor(n) : n \in RequestedNames}] :
              /\ \A i \in 1..Len(calls) : outcomes[i] \in OutcomesFor(calls[i].name)
              /\ messages' = messages \o ToolNodeInvoke(calls, outcomes)
    /\ trace' = Append(trace, "tools")
    /\ pc' = "agent"
    /\ UNCHANGED <<request, response, nextCallId>>
    /\ UNCHANGED chunkVars
    /\ UNCHANGED pipelineVars
    /\ UNCHANGED contextVars
    /\ UNCHANGED connectVars

\* chatCompletion after agent.invoke has returned.
Respond ==
    /\ pc = "end"
    /\ response' = BuildResponse(messages)
    /\ pc' = "done"
    /\ UNCHANGED <<request, messages, trace, nextCallId>>
    /\ UNCHANGED chunkVars
    /\ UNCHANGED pipelineVars
    /\ UNCHANGED contextVars
    /\ UNCHANGED connectVars

\* ---------------------------------------------------------------- embedTexts
\* Most texts handed to embedTexts in one call.
MaxTexts == 3
\* Largest config.batchSize explored (the smallest is 1).
MaxBatchSize == 2

\* this.config.dimensions
Dimensions == 3072
\* The length of the vectors of an embedding model other than the configured one.
OtherDimensions == 1536

\* The texts: empty, whitespace only, and two texts with content.
EmbedTextValues == {"", " ", "alpha", "beta"}
TextLists == UNION {[1..n -> EmbedTextValues] : n \in 0..MaxTexts}

\* An embedding vector: the text it is the embedding of and its length.
Vector(t, d) == [of |-> t, dim |-> d]

\* texts.filter(text => text.trim().length > 0)
FilterValid(ts) ==
    LET IsValid(t) == TrimText(t) # ""
    IN  SelectSeq(ts, IsValid)

\* Array.prototype.slice(a, b) on 0-based positions.
Slice(ts, a, b) == SubSeq(ts, a + 1, Min(b, Len(ts)))

\* this.embeddings.embedDocuments(batch) when the capability answers with
\* vectors of length d: one vector per text of the batch, in order.
EmbedDocuments(batch, d) == [k \in 1..Len(batch) |-> Vector(batch[k], d)]

\* A call of embedTexts(texts).
EmbedInit ==
    /\ texts \in TextLists
    /\ batchSize \in 1..MaxBatchSize
    /\ validTexts = <<>>
    /\ embedI = 0
    /\ embeddings = <<>>
    /\ epc = "entry"
    /\ embedLog = <<>>

\* embedTexts up to the for loop: [] for no texts, the filter, the error when
\* no text is left.
EmbedEntry ==
    /\ epc = "entry"
    /\ IF Len(texts) = 0
       THEN /\ epc' = "returned"
            /\ validTexts' = validTexts
       ELSE /\ validTexts' = FilterValid(texts)
            /\ epc' = IF Len(validTexts') = 0 THEN "threw" ELSE "loop"
    /\ embedI' = 0
    /\ embeddings' = <<>>
    /\ embedLog' = <<>>
    /\ UNCHANGED <<texts, batchSize>>
    /\ UNCHANGED <<uploadVars, indexVars>>
    /\ UNCHANGED contextVars
    /\ UNCHANGED connectVars
    /\ UNCHANGED chunkVars
    /\ UNCHANGED agentVars

\* An entry of embedLog: a batch handed to the capability, its answer, its
\* failure, or the timer between two batches.
EmbedEvent(event, batch) == [event |-> event, batch |-> batch]

\* The test of the delay with <= for <: a delay after the last batch too.
DelayNeededInclusive(i, size, n) == i + size <= n

\* if (i + batchSize < validTexts.length): another batch follows.
DelayNeeded(i, size, n) == i + size < n

\* The start of an iteration of the for loop: the batch is cut and handed to
\* this.embeddings.embedDocuments, and embedTexts awaits the answer.
EmbedRequest ==
    /\ epc = "loop"
    /\ embedI < Len(validTexts)
    /\ embedLog' =
          Append(embedLog, EmbedEvent("request", Slice(validTexts, embedI, embedI + batchSize)))
    /\ epc' = "awaiting"
    /\ UNCHANGED <<texts, batchSize, validTexts, embedI, embeddings>>
    /\ UNCHANGED <<uploadVars, indexVars>>
    /\ UNCHANGED contextVars
    /\ UNCHANGED connectVars
    /\ UNCHANGED chunkVars
    /\ UNCHANGED agentVars

\* The capability answers: the vectors are pushed; then the delay when
\* another batch follows, and otherwise i += batchSize ends the loop and
\* embedTexts returns embeddings.
EmbedBatch ==
    /\ epc = "awaiting"
    /\ \E d \in {Dimensions, OtherDimensions} :
          LET batch == Slice(validTexts, embedI, embedI + batchSize)
              batchEmbeddings == EmbedDocuments(batch, d)
          IN  embeddings' = embeddings \o batchEmbeddings
    /\ embedLog' = Append(embedLog, EmbedEvent("response", <<>>))
    /\ IF DelayNeeded(embedI, batchSize, Len(validTexts))
       THEN /\ embedI' = embedI
            /\ epc' = "delay"
       ELSE /\ embedI' = embedI + batchSize
            /\ epc' = "returned"
    /\ UNCHANGED <<texts, batchSize, validTexts>>
    /\ UNCHANGED <<uploadVars, indexVars>>
    /\ UNCHANGED contextVars
    /\ UNCHANGED connectVars
    /\ UNCHANGED chunkVars
    /\ UNCHANGED agentVars

\* await new Promise(resolve => setTimeout(resolve, 100)), then i += batchSize.
EmbedDelay ==
    /\ epc = "delay"
    /\ embedLog' = Append(embedLog, EmbedEvent("delay", <<>>))
    /\ embedI' = embedI + batchSize
    /\ epc' = "loop"
    /\ UNCHANGED <<texts, batchSize, validTexts, embeddings>>
    /\ UNCHANGED <<uploadVars, indexVars>>
    /\ UNCHANGED contextVars
    /\ UNCHANGED connectVars
    /\ UNCHANGED chunkVars
    /\ UNCHANGED agentVars

\* The capability fails: the error is thrown again as "Failed to generate
\* embeddings" and embedTexts returns nothing.
EmbedBatchFails ==
    /\ epc = "awaiting"
    /\ embedLog' = Append(embedLog, EmbedEvent("error", <<>>))
    /\ epc' = "threw"
    /\ UNCHANGED <<texts, batchSize, validTexts, embedI, embeddings>>
    /\ UNCHANGED <<uploadVars, indexVars>>
    /\ UNCHANGED contextVars
    /\ UNCHANGED connectVars
    /\ UNCHANGED chunkVars
    /\ UNCHANGED agentVars

\* ---------------------------------------------------------------- the vector index
\* No call of deleteDocument or retrieve_documents yet.
NoOp ==
    [op |-> "none", documentId |-> "", query |-> "", filter |-> "none", result |-> "none",
     documents |-> {}, before |-> {}]

\* ---------------------------------------------------------------- uploadDocument
NoFile == [present |-> FALSE, valid |-> FALSE, extractable |-> FALSE]
NoDocument == [id |-> "", status |-> "none", chunkCount |-> -1]
NoUploadResponse == [success |-> FALSE, documentId |-> "", message |-> "", chunkCount |-> -1]

\* The id processUploadedFile gives the document (a fresh uuid), and the id of
\* a document uploaded before.
NewDocumentId == "doc-new"
OtherDocumentId == "doc-other"

\* The files: none, one that fails validation, one whose text cannot be
\* extracted, one that can be processed.
UploadFiles ==
    { [present |-> FALSE, valid |-> FALSE, extractable |-> FALSE],
      [present |-> TRUE, valid |-> FALSE, extractable |-> FALSE],
      [present |-> TRUE, valid |-> TRUE, extractable |-> FALSE],
      [present |-> TRUE, valid |-> TRUE, extractable |-> TRUE] }

\* The contents of the chunks chunkDocument returns: no chunk, the single
\* chunk of a short document (its content as it is, blank or not), or chunks
\* cut by the loop, which are trimmed and not empty.
ChunkListsReturned ==
    {l \in TextLists : Len(l) >= 2 => \A k \in 1..Len(l) : TrimText(l[k]) # ""}

\* The record storeDocumentChunks prepares for chunk k of document id.
ChunkRecord(id, k, content) == [documentId |-> id, index |-> k - 1, text |-> content]

\* embedding: embeddings[index] of a chunk; nothing is there past the end.
NoVector == Vector("", 0)
EmbeddingAt(embs, k) == IF k <= Len(embs) THEN embs[k] ELSE NoVector

\* chunks.map((chunk, index) => ({...chunk, embedding: embeddings[index]}))
AddEmbeddings(chs, embs) ==
    [k \in 1..Len(chs) |-> [content |-> chs[k], embedding |-> EmbeddingAt(embs, k)]]

\* What vectorStore.addDocuments (with initializeVectorStore before it) can
\* come to for n documents: it returns the ids after it has written all n, or
\* it throws, having written the first k < n.
StoreOutcomes(n) ==
    {[threw |-> FALSE, written |-> n]} \cup {[threw |-> TRUE, written |-> k] : k \in 0..(n - 1)}

\* The records an outcome leaves in the index.
RecordsWritten(id, chs, outcome) ==
    {ChunkRecord(id, k, chs[k].content) : k \in 1..outcome.written}

\* storeDocumentChunks that catches the error of the write and returns the
\* ids written so far.
StoreResultSwallowed(outcome) == [state |-> "returned", ids |-> [k \in 1..outcome.written |-> k]]

\* What storeDocumentChunks comes to: the ids addDocuments returned, or the
\* error thrown again as "Failed to store document chunks".
StoreResult(outcome) ==
    IF outcome.threw THEN [state |-> "threw", ids |-> <<>>]
    ELSE [state |-> "returned", ids |-> [k \in 1..outcome.written |-> k]]

NotStored == [state |-> "none", ids |-> <<>>]

\* The response of a catch block that reports the failure as a success.
FailureAsSuccess(message) ==
    [success |-> TRUE, documentId |-> "", message |-> message, chunkCount |-> -1]

\* The responses with success: false.
UploadFailure(message) ==
    [success |-> FALSE, documentId |-> "", message |-> message, chunkCount |-> -1]

\* The response with success: true; chunkCount is the number in its message.
UploadSuccess(id, chs) ==
    [success |-> TRUE, documentId |-> id, message |-> "Successfully processed",
     chunkCount |-> Len(chs)]

\* "Update document metadata"
CompletedDocument(doc, chs) == [doc EXCEPT !.status = "completed", !.chunkCount = Len(chs)]

\* The calls uploadDocument has made when chunkDocument has returned: each
\* is awaited, or synchronous, before the next line runs.
UploadCallsToChunking == <<"validateFile", "processUploadedFile", "chunkDocument">>

\* A call of uploadDocument(formData).
UploadInit ==
    /\ file \in UploadFiles
    /\ document = NoDocument
    /\ docChunks = <<>>
    /\ chunksWithEmbeddings = <<>>
    /\ storedIds = NotStored
    /\ uploadResponse = NoUploadResponse
    /\ upc = "start"
    /\ uploadCalls = <<>>
    /\ pineconeIndex \in {{}, {ChunkRecord(OtherDocumentId, 1, "alpha")}}
    /\ lastOp = NoOp
    /\ indexCalls = 0
    /\ deletedIds = {}
    /\ texts = <<>>
    /\ batchSize \in 1..MaxBatchSize
    /\ validTexts = <<>>
    /\ embedI = 0
    /\ embeddings = <<>>
    /\ epc = "idle"
    /\ embedLog = <<>>

\* uploadDocument up to the call of embedTexts: the file is looked up and
\* validated, processUploadedFile makes the document, chunkDocument cuts it,
\* and embedDocumentChunks hands the contents to embedTexts ([] for no chunks).
UploadStart ==
    /\ upc = "start"
    /\ IF ~file.present \/ ~file.valid \/ ~file.extractable
       THEN /\ uploadResponse' =
                  UploadFailure(IF ~file.present THEN "No file provided"
                                ELSE IF ~file.valid THEN "File validation failed"
                                ELSE "Failed to process document")
            /\ upc' = "done"
            /\ uploadCalls' = IF file.present THEN <<"validateFile">> ELSE <<>>
            /\ UNCHANGED <<document, docChunks, chunksWithEmbeddings, texts, epc>>
       ELSE \E cs \in ChunkListsReturned :
               /\ document' = [id |-> NewDocumentId, status |-> "processing", chunkCount |-> -1]
               /\ docChunks' = cs
               /\ uploadResponse' = uploadResponse
               /\ IF Len(cs) = 0
                  THEN /\ chunksWithEmbeddings' = <<>>
                       /\ upc' = "store"
                       /\ uploadCalls' = UploadCallsToChunking \o <<"embedDocumentChunks">>
                       /\ UNCHANGED <<texts, epc>>
                  ELSE /\ chunksWithEmbeddings' = chunksWithEmbeddings
                       /\ upc' = "embedding"
                       /\ uploadCalls' = UploadCallsToChunking
                       /\ texts' = cs
                       /\ epc' = "entry"
    /\ UNCHANGED <<file, storedIds, pineconeIndex, batchSize, validTexts, embedI, embeddings,
                   embedLog>>
    /\ UNCHANGED <<lastOp, indexCalls, deletedIds>>
    /\ UNCHANGED contextVars
    /\ UNCHANGED connectVars
    /\ UNCHANGED chunkVars
    /\ UNCHANGED agentVars

\* embedDocumentChunks after embedTexts has returned: the embeddings are
\* added to the chunks.
UploadEmbedded ==
    /\ upc = "embedding"
    /\ epc = "returned"
    /\ chunksWithEmbeddings' = AddEmbeddings(docChunks, embeddings)
    /\ upc' = "store"
    /\ uploadCalls' = Append(uploadCalls, "embedDocumentChunks")
    /\ UNCHANGED <<file, document, docChunks, storedIds, uploadResponse, pineconeIndex>>
    /\ UNCHANGED <<lastOp, indexCalls, deletedIds>>
    /\ UNCHANGED contextVars
    /\ UNCHANGED connectVars
    /\ UNCHANGED embedVars
    /\ UNCHANGED chunkVars
    /\ UNCHANGED agentVars

\* embedTexts has thrown: embedDocumentChunks throws the error again and the
\* catch of uploadDocument answers.
UploadEmbedFailed ==
    /\ upc = "embedding"
    /\ epc = "threw"
    /\ uploadResponse' = UploadFailure("Failed to process document")
    /\ upc' = "done"
    /\ UNCHANGED <<file, document, docChunks, chunksWithEmbeddings, storedIds, pineconeIndex>>
    /\ UNCHANGED uploadCalls
    /\ UNCHANGED <<lastOp, indexCalls, deletedIds>>
    /\ UNCHANGED contextVars
    /\ UNCHANGED connectVars
    /\ UNCHANGED embedVars
    /\ UNCHANGED chunkVars
    /\ UNCHANGED agentVars

\* storeDocumentChunks and the rest of uploadDocument: [] for no chunks;
\* otherwise the write; then the document is marked and the success response
\* built, or the catch answers.
UploadStore ==
    /\ upc = "store"
    /\ \E outcome \in StoreOutcomes(Len(chunksWithEmbeddings)) :
          /\ pineconeIndex' =
                pineconeIndex \cup RecordsWritten(document.id, chunksWithEmbeddings, outcome)
          /\ storedIds' = StoreResult(outcome)
          /\ IF storedIds'.state = "returned"
             THEN /\ document' = CompletedDocument(document, docChunks)
                  /\ uploadResponse' = UploadSuccess(document.id, docChunks)
                  /\ uploadCalls' = Append(uploadCalls, "storeDocumentChunks")
             ELSE /\ document' = document
                  /\ uploadResponse' = UploadFailure("Failed to process document")
                  /\ uploadCalls' = uploadCalls
    /\ upc' = "done"
    /\ UNCHANGED <<file, docChunks, chunksWithEmbeddings>>
    /\ UNCHANGED <<lastOp, indexCalls, deletedIds>>
    /\ UNCHANGED contextVars
    /\ UNCHANGED connectVars
    /\ UNCHANGED embedVars
    /\ UNCHANGED chunkVars
    /\ UNCHANGED agentVars

\* ---------------------------------------------------------------- deleteDocument, retrieve_documents
\* Most chunks of one document in the index.
MaxStoredChunks == 2

IndexDocumentIds == {NewDocumentId, OtherDocumentId}

\* The records the index can hold at the start.
IndexRecords ==
    {ChunkRecord(d, k, "alpha") : d \in IndexDocumentIds, k \in 1..MaxStoredChunks}

\* The queries the model hands to retrieve_documents: empty, whitespace only,
\* and a question.
RawQueries == {"", " ", "question"}

\* The filters: none given, {}, and a filter on the documentId.
Filters == {"none", "empty"} \cup IndexDocumentIds

\* numResults: the smallest and the default.
NumResultsValues == {1, 5}

\* deleteMany without a filter: every record goes.
DeleteFilterMatchesAll(r, id) == TRUE

\* filter: { documentId: { $eq: documentId } }
DeleteFilterMatches(r, id) == r.documentId = id

\* index.deleteMany({ filter }) on the records held.
DeleteMany(records, id) == {r \in records : ~DeleteFilterMatches(r, id)}

\* The metadata filter of a search.
FilterMatches(r, filter) == filter \in {"none", "empty"} \/ r.documentId = filter

\* vectorStore.similaritySearchWithScore(query, k, filter): what it can
\* return, the k best of the matching records (which are best is the index's
\* business).
SearchResults(records, k, filter) ==
    LET matching == {r \in records : FilterMatches(r, filter)}
    IN  {docs \in SUBSET matching : Cardinality(docs) = Min(k, Cardinality(matching))}

\* RetrievalToolInputSchema on the query: min(1) on the text as given, then trim.
QueryPassesSchema(query) == query # ""

\* if (filter && Object.keys(filter).length > 0)
UsesFilteredSearch(filter) == filter \notin {"none", "empty"}

\* deleteDocument(documentId): deleteDocumentChunks, then the response.
DeleteDocument ==
    /\ \E id \in IndexDocumentIds, ok \in BOOLEAN :
          /\ pineconeIndex' = IF ok THEN DeleteMany(pineconeIndex, id) ELSE pineconeIndex
          /\ deletedIds' = IF ok THEN deletedIds \cup {id} ELSE deletedIds
          /\ lastOp' = [op |-> "deleteDocument", documentId |-> id, query |-> "",
                        filter |-> "none", result |-> IF ok THEN "ok" ELSE "failed",
                        documents |-> {}, before |-> pineconeIndex]
    /\ indexCalls' = 1
    /\ UNCHANGED <<embedVars, uploadVars>>
    /\ UNCHANGED contextVars
    /\ UNCHANGED connectVars
    /\ UNCHANGED chunkVars
    /\ UNCHANGED agentVars

\* A call of retrieve_documents({query, numResults, filter}): the schema, then
\* similaritySearch or filteredSearch.
RetrieveDocuments ==
    /\ \E query \in RawQueries, filter \in Filters, numResults \in NumResultsValues :
          LET q == TrimText(query)
              op == [op |-> "retrieve_documents", documentId |-> "", query |-> query,
                     filter |-> filter, result |-> "none", documents |-> {},
                     before |-> pineconeIndex]
          IN  IF ~QueryPassesSchema(query)
              THEN /\ lastOp' = [op EXCEPT !.result = "invalid input"]
                   /\ indexCalls' = 0
              ELSE IF ~UsesFilteredSearch(filter) /\ q = ""
              THEN /\ lastOp' = [op EXCEPT !.result = "empty query"]
                   /\ indexCalls' = 0
              ELSE /\ indexCalls' = 1
                   /\ \/ lastOp' = [op EXCEPT !.result = "failed"]
                      \/ \E docs \in SearchResults(pineconeIndex, numResults, filter) :
                            lastOp' = [op EXCEPT !.result = "ok", !.documents = docs]
    /\ UNCHANGED <<pineconeIndex, deletedIds>>
    /\ UNCHANGED <<embedVars, uploadVars>>
    /\ UNCHANGED contextVars
    /\ UNCHANGED connectVars
    /\ UNCHANGED chunkVars
    /\ UNCHANGED agentVars

\* The index as uploads have left it, and calls of deleteDocument and
\* retrieve_documents in any order.
IndexInit ==
    /\ pineconeIndex \in SUBSET IndexRecords
    /\ lastOp = NoOp
    /\ indexCalls = 0
    /\ deletedIds = {}

\* ---------------------------------------------------------------- chatCompletion: context
\* Most lines of a request.context.
MaxLines == 3

UserPrefix == <<"u", "s", "e", "r", ":">>
AssistantPrefix == <<"a", "s", "s", "i", "s", "t", "a", "n", "t", ":">>

\* The lines a context is made of: an empty line, a blank one, a prefix with
\* nothing after it, a prefix with text and spaces around it, a prefix after
\* a space, another prefix, no prefix.
ContextLineTexts ==
    { <<>>,
      <<" ">>,
      UserPrefix,
      UserPrefix \o <<" ", "h", "i", " ">>,
      AssistantPrefix \o <<"h", "i">>,
      <<" ">> \o UserPrefix \o <<"h", "i">>,
      <<"s", "y", "s", ":", "h", "i">>,
      <<"h", "i">> }

\* The contexts of at most n lines, joined by line feeds.
RECURSIVE ContextsOf(_)
ContextsOf(n) ==
    IF n = 0 THEN {<<>>}
    ELSE IF n = 1 THEN ContextLineTexts
    ELSE LET shorter == ContextsOf(n - 1)
         IN  shorter \cup {c \o <<LF>> \o line : c \in shorter, line \in ContextLineTexts}

\* request.message: validateChatMessage has accepted it; it is pushed as given.
CurrentMessages == {<<"q">>, <<"q", " ">>}

\* String.prototype.split(sep) for a separator of one character.
RECURSIVE Split(_, _)
Split(t, sep) ==
    LET hits == {i \in 1..Len(t) : t[i] = sep}
    IN  IF hits = {} THEN <<t>>
        ELSE LET first == CHOOSE i \in hits : \A j \in hits : i <= j
             IN  <<SubSeq(t, 1, first - 1)>> \o Split(SubSeq(t, first + 1, Len(t)), sep)

\* String.prototype.startsWith(prefix)
StartsWith(t, prefix) == Len(t) >= Len(prefix) /\ SubSeq(t, 1, Len(prefix)) = prefix

\* context.split('\n').filter(line => line.trim())
IsNonBlank(line) == Trim(line) # <<>>
SplitContext(c) == SelectSeq(Split(c, LF), IsNonBlank)

\* The body of the for loop: a line that starts with neither prefix is
\* pushed nowhere, and malformed lines stop nothing.
PushContextLineKeepsMalformed(msgs, contextLine) ==
    IF StartsWith(contextLine, AssistantPrefix)
    THEN Append(msgs, AIMessage(Trim(Substring(contextLine, 10, Len(contextLine))), FALSE, <<>>))
    ELSE Append(msgs, HumanMessage(Trim(Substring(contextLine, 5, Len(contextLine)))))

PushContextLine(msgs, contextLine) ==
    IF StartsWith(contextLine, UserPrefix)
    THEN Append(msgs, HumanMessage(Trim(Substring(contextLine, 5, Len(contextLine)))))
    ELSE IF StartsWith(contextLine, AssistantPrefix)
    THEN Append(msgs, AIMessage(Trim(Substring(contextLine, 10, Len(contextLine))), FALSE, <<>>))
    ELSE msgs

\* Most messages in recentMessages explored (the client keeps the last 5).
MaxRecent == 3

\* The contents of the messages of a conversation: one line, nothing, one
\* line with a space at its end, two lines.
MessageContents ==
    {<<"h", "i">>, <<>>, <<"h", "i", " ">>, <<"h", "i", LF, "y", "o">>}

ChatMessages == [role : {"user", "assistant"}, content : MessageContents]
RecentMessageLists == UNION {[1..n -> ChatMessages] : n \in 0..MaxRecent}

\* msg.role as text.
RoleText(role) ==
    IF role = "user" THEN <<"u", "s", "e", "r">>
    ELSE <<"a", "s", "s", "i", "s", "t", "a", "n", "t">>

\* `${msg.role}: ${msg.content}`
SerializeMessage(msg) == RoleText(msg.role) \o <<":", " ">> \o msg.content

\* Array.prototype.join(sep)
RECURSIVE Join(_, _)
Join(lines, sep) ==
    IF lines = <<>> THEN <<>>
    ELSE IF Len(lines) = 1 THEN lines[1]
    ELSE lines[1] \o sep \o Join(Tail(lines), sep)

\* recentMessages.map(msg => `${msg.role}: ${msg.content}`).join('\n')
SerializeContext(msgs) ==
    Join([k \in 1..Len(msgs) |-> SerializeMessage(msgs[k])], <<LF>>)

ContextInit ==
    /\ recentMessages = <<>>
    /\ context \in ContextsOf(MaxLines)
    /\ currentMessage \in CurrentMessages
    /\ contextMessages = <<>>
    /\ lineI = 1
    /\ turnMessages = <<>>
    /\ ctxPc = "entry"

\* const messages = []; if (context) { const contextMessages = ... }
ContextEntry ==
    /\ ctxPc = "entry"
    /\ turnMessages' = <<>>
    /\ lineI' = 1
    /\ IF context # <<>>
       THEN /\ contextMessages' = SplitContext(context)
            /\ ctxPc' = "lines"
       ELSE /\ contextMessages' = contextMessages
            /\ ctxPc' = "push"
    /\ UNCHANGED <<recentMessages, context, currentMessage>>
    /\ UNCHANGED chunkVars
    /\ UNCHANGED agentVars
    /\ UNCHANGED pipelineVars
    /\ UNCHANGED connectVars

\* for (const contextLine of contextMessages) { ... }: one line, or the end
\* of the loop.
ContextLoop ==
    /\ ctxPc = "lines"
    /\ IF lineI <= Len(contextMessages)
       THEN /\ turnMessages' = PushContextLine(turnMessages, contextMessages[lineI])
            /\ lineI' = lineI + 1
            /\ ctxPc' = ctxPc
       ELSE /\ turnMessages' = turnMessages
            /\ lineI' = lineI
            /\ ctxPc' = "push"
    /\ UNCHANGED <<recentMessages, context, currentMessage, contextMessages>>
    /\ UNCHANGED chunkVars
    /\ UNCHANGED agentVars
    /\ UNCHANGED pipelineVars
    /\ UNCHANGED connectVars

\* messages.push(new HumanMessage(message)); agent.invoke({ messages })
ContextPush ==
    /\ ctxPc = "push"
    /\ turnMessages' = Append(turnMessages, HumanMessage(currentMessage))
    /\ ctxPc' = "invoke"
    /\ UNCHANGED <<recentMessages, context, currentMessage, contextMessages, lineI>>
    /\ UNCHANGED chunkVars
    /\ UNCHANGED agentVars
    /\ UNCHANGED pipelineVars
    /\ UNCHANGED connectVars

\* ---------------------------------------------------------------- initializeVectorStore
\* Most callers of initializeVectorStore at work at a time.
MaxCallers == 2
\* Most calls of initializeVectorStore, all callers together.
MaxCalls == 3
\* Most calls of clearCache.
MaxResets == 1

Callers == 1..MaxCallers

\* initializeVectorStore up to its await: the cached store is returned, or
\* PineconeStore.fromExistingIndex is called and awaited.
InitializeVectorStore(c) ==
    /\ callPc[c] # "connecting"
    /\ callsStarted < MaxCalls
    /\ callsStarted' = callsStarted + 1
    /\ IF vectorStore # "null"
       THEN /\ callPc' = [callPc EXCEPT ![c] = "returned"]
            /\ overlapped' = overlapped
       ELSE /\ callPc' = [callPc EXCEPT ![c] = "connecting"]
            /\ overlapped' = (overlapped \/ \E d \in Callers : callPc[d] = "connecting")
    /\ UNCHANGED <<vectorStore, established, resets>>
    /\ UNCHANGED chunkVars
    /\ UNCHANGED agentVars
    /\ UNCHANGED pipelineVars
    /\ UNCHANGED contextVars

\* fromExistingIndex has returned: the store is assigned to this.vectorStore
\* and returned.
ConnectReturns(c) ==
    /\ callPc[c] = "connecting"
    /\ vectorStore' = "store"
    /\ established' = established + 1
    /\ callPc' = [callPc EXCEPT ![c] = "returned"]
    /\ UNCHANGED <<overlapped, callsStarted, resets>>
    /\ UNCHANGED chunkVars
    /\ UNCHANGED agentVars
    /\ UNCHANGED pipelineVars
    /\ UNCHANGED contextVars

\* fromExistingIndex has thrown: nothing is assigned, the error is thrown
\* again as "Failed to initialize Pinecone vector store".
ConnectFails(c) ==
    /\ callPc[c] = "connecting"
    /\ callPc' = [callPc EXCEPT ![c] = "threw"]
    /\ UNCHANGED <<vectorStore, established, overlapped, callsStarted, resets>>
    /\ UNCHANGED chunkVars
    /\ UNCHANGED agentVars
    /\ UNCHANGED pipelineVars
    /\ UNCHANGED contextVars

\* clearCache(): this.vectorStore = null.
ClearCache ==
    /\ resets < MaxResets
    /\ resets' = resets + 1
    /\ vectorStore' = "null"
    /\ established' = 0
    /\ overlapped' = (\E c, d \in Callers : c # d /\ callPc[c] = "connecting" /\ callPc[d] = "connecting")
    /\ UNCHANGED <<callPc, callsStarted>>
    /\ UNCHANGED chunkVars
    /\ UNCHANGED agentVars
    /\ UNCHANGED pipelineVars
    /\ UNCHANGED contextVars

\* ---------------------------------------------------------------- specifications
ConnectIdle ==
    /\ vectorStore = "null"
    /\ callPc = [c \in Callers |-> "idle"]
    /\ established = 0
    /\ overlapped = FALSE
    /\ callsStarted = 0
    /\ resets = 0

ContextIdle ==
    /\ recentMessages = <<>>
    /\ context = <<>>
    /\ currentMessage = <<>>
    /\ contextMessages = <<>>
    /\ lineI = 1
    /\ turnMessages = <<>>
    /\ ctxPc = "idle"

ChunkIdle ==
    /\ variant = "server"
    /\ text = <<>>
    /\ chunkSize = 1
    /\ chunkOverlap = 0
    /\ startIndex = 0
    /\ chunkIndex = 0
    /\ chunks = <<>>
    /\ cpc = "done"

AgentIdle ==
    /\ request = [valid |-> FALSE, testMode |-> FALSE, context |-> <<>>]
    /\ messages = <<>>
    /\ pc = "done"
    /\ response = NoResponse
    /\ trace = <<>>
    /\ nextCallId = 1

EmbedIdle ==
    /\ texts = <<>>
    /\ batchSize = 1
    /\ validTexts = <<>>
    /\ embedI = 0
    /\ embeddings = <<>>
    /\ epc = "idle"
    /\ embedLog = <<>>

UploadIdle ==
    /\ file = NoFile
    /\ document = NoDocument
    /\ docChunks = <<>>
    /\ chunksWithEmbeddings = <<>>
    /\ storedIds = NotStored
    /\ uploadResponse = NoUploadResponse
    /\ upc = "idle"
    /\ uploadCalls = <<>>

IndexIdle ==
    /\ pineconeIndex = {}
    /\ lastOp = NoOp
    /\ indexCalls = 0
    /\ deletedIds = {}

PipelineIdle == EmbedIdle /\ UploadIdle /\ IndexIdle

\* One turn of chatCompletion.
Init == AgentInit /\ ChunkIdle /\ PipelineIdle /\ ContextIdle /\ ConnectIdle
Next == StartTurn \/ CallModel \/ CallModelFails \/ CallTools \/ Respond
Spec == Init /\ [][Next]_vars

\* One call of chunkDocument, either variant.
ChunkInit == ChunkInitOf({"server", "client"}) /\ AgentIdle /\ PipelineIdle /\ ContextIdle /\ ConnectIdle
ChunkNext == ChunkEntry \/ ChunkLoop
ChunkSpec == ChunkInit /\ [][ChunkNext]_vars

\* One call of the server copy of chunkDocument.
ServerChunkInit == ChunkInitOf({"server"}) /\ AgentIdle /\ PipelineIdle /\ ContextIdle /\ ConnectIdle
ServerChunkSpec == ServerChunkInit /\ [][ChunkNext]_vars

\* chunkDocument(document) with the default config on the document of the
\* upload example, server copy.
HandbookInit ==
    /\ variant = "server"
    /\ text \in {"letters", "prose"}
    /\ chunkSize = DefaultChunkSize
    /\ chunkOverlap = DefaultChunkOverlap
    /\ startIndex = 0
    /\ chunkIndex = 0
    /\ chunks = <<>>
    /\ cpc = "entry"
    /\ AgentIdle
    /\ PipelineIdle
    /\ ContextIdle /\ ConnectIdle
HandbookNext == HandbookEntry \/ HandbookLoop
HandbookSpec == HandbookInit /\ [][HandbookNext]_vars

\* One call of chunkDocument on a document made of separators and letters.
\* A call of chunkDocument, either copy, on a document put together from
\* separators and letters, with chunk sizes that leave room for more than
\* one separator in a window.
SeparatorSpecInit ==
    /\ variant \in {"server", "client"}
    /\ text \in TextsOfParts(MaxParts)
    /\ chunkSize \in 1..(MaxChunkSize + 1)
    /\ chunkOverlap \in {0, 1}
    /\ startIndex = 0
    /\ chunkIndex = 0
    /\ chunks = <<>>
    /\ cpc = "entry"
    /\ AgentIdle /\ PipelineIdle /\ ContextIdle /\ ConnectIdle
SeparatorSpec == SeparatorSpecInit /\ [][ChunkNext]_vars

\* One call of embedTexts.
EmbedSpecInit ==
    EmbedInit /\ UploadIdle /\ IndexIdle /\ ChunkIdle /\ AgentIdle /\ ContextIdle /\ ConnectIdle
EmbedNext == EmbedEntry \/ EmbedRequest \/ EmbedBatch \/ EmbedDelay \/ EmbedBatchFails
EmbedSpec == EmbedSpecInit /\ [][EmbedNext]_vars

\* One call of uploadDocument, with the calls of embedTexts it makes.
UploadSpecInit == UploadInit /\ ChunkIdle /\ AgentIdle /\ ContextIdle /\ ConnectIdle
UploadNext ==
    \/ UploadStart \/ UploadEmbedded \/ UploadEmbedFailed \/ UploadStore
    \/ EmbedEntry \/ EmbedRequest \/ EmbedBatch \/ EmbedDelay \/ EmbedBatchFails
UploadSpec == UploadSpecInit /\ [][UploadNext]_vars

\* One call of embedDocumentChunks, with the call of embedTexts it makes.
\* A call of embedDocumentChunks(chunks) from uploadDocument, for any list of
\* chunks that is not empty: the contents are handed to embedTexts.
EmbedChunksSpecInit ==
    /\ file \in {f \in UploadFiles : f.present /\ f.valid /\ f.extractable}
    /\ document = [id |-> NewDocumentId, status |-> "processing", chunkCount |-> -1]
    /\ docChunks \in {l \in TextLists : Len(l) > 0}
    /\ chunksWithEmbeddings = <<>>
    /\ storedIds = NotStored
    /\ uploadResponse = NoUploadResponse
    /\ upc = "embedding"
    /\ uploadCalls = UploadCallsToChunking
    /\ texts = docChunks
    /\ batchSize \in 1..MaxBatchSize
    /\ validTexts = <<>>
    /\ embedI = 0
    /\ embeddings = <<>>
    /\ epc = "entry"
    /\ embedLog = <<>>
    /\ IndexIdle /\ ChunkIdle /\ AgentIdle /\ ContextIdle /\ ConnectIdle
EmbedChunksNext ==
    \/ EmbedEntry \/ EmbedRequest \/ EmbedBatch \/ EmbedDelay \/ EmbedBatchFails
    \/ UploadEmbedded \/ UploadEmbedFailed
EmbedChunksSpec == EmbedChunksSpecInit /\ [][EmbedChunksNext]_vars

\* deleteDocument and retrieve_documents on an index that holds chunks.
IndexSpecInit ==
    IndexInit /\ EmbedIdle /\ UploadIdle /\ ChunkIdle /\ AgentIdle /\ ContextIdle /\ ConnectIdle
IndexNext == DeleteDocument \/ RetrieveDocuments
IndexSpec == IndexSpecInit /\ [][IndexNext]_vars

\* The part of chatCompletion that puts together the messages for the agent.
ContextSpecInit == ContextInit /\ ChunkIdle /\ AgentIdle /\ PipelineIdle /\ ConnectIdle
ContextNext == ContextEntry \/ ContextLoop \/ ContextPush
ContextSpec == ContextSpecInit /\ [][ContextNext]_vars

\* The chat client's context, parsed by chatCompletion.
\* A call of chatCompletion with the context the chat client makes of its
\* recent messages.
RoundTripSpecInit ==
    /\ recentMessages \in RecentMessageLists
    /\ context = SerializeContext(recentMessages)
    /\ currentMessage \in CurrentMessages
    /\ contextMessages = <<>>
    /\ lineI = 1
    /\ turnMessages = <<>>
    /\ ctxPc = "entry"
    /\ ChunkIdle /\ AgentIdle /\ PipelineIdle /\ ConnectIdle
RoundTripSpec == RoundTripSpecInit /\ [][ContextNext]_vars

\* Calls of initializeVectorStore and clearCache on the one PineconeClient of
\* the process, in any interleaving the awaits allow.
ConnectSpecInit ==
    /\ vectorStore = "null"
    /\ callPc = [c \in Callers |-> "idle"]
    /\ established = 0
    /\ overlapped = FALSE
    /\ callsStarted = 0
    /\ resets = 0
    /\ ChunkIdle /\ AgentIdle /\ PipelineIdle /\ ContextIdle
ConnectNext ==
    \/ \E c \in Callers : InitializeVectorStore(c)
    \/ \E c \in Callers : ConnectReturns(c)
    \/ \E c \in Callers : ConnectFails(c)
    \/ ClearCache
ConnectSpec == ConnectSpecInit /\ [][ConnectNext]_vars

\* ---------------------------------------------------------------- properties
LastMessage == messages[Len(messages)]

\* The answers of the model in this turn: the AI messages after the user message.
TurnStart == Len(ParseContext(request.context)) + 1
ModelAnswers == {i \in (TurnStart + 1)..Len(messages) : messages[i].type = "ai"}
AnswersWithCalls == {i \in ModelAnswers : Len(messages[i].tool_calls) >= 1}
ToolMessages == {i \in 1..Len(messages) : messages[i].type = "tool"}
TurnToolCalls == AllToolCalls(messages)

\* The graph has run to its end and chatCompletion has built its response from it.
GraphDone == pc = "done" /\ response.kind \in {"answer", "noanswer"}

\* C1: in the server copy of chunkDocument, for every content and every
\* chunkSize >= 1 and chunkOverlap >= 0 (below chunkSize or not), the loop
\* terminates: every iteration starts with startIndex below content.length and
\* moves startIndex strictly forward, the loop goes on exactly while startIndex
\* is below content.length and is left with startIndex at or past it; the
\* chunks emitted carry the index values 0, 1, 2, ... in emission order.
ServerChunkingTerminates ==
    [][/\ cpc = "loop" => (startIndex < Len(text) /\ startIndex' > startIndex)
       /\ cpc' = "loop" => (startIndex' < Len(text) /\ Len(chunks') <= Len(text))
       /\ (cpc' = "done" /\ Len(text) > chunkSize) => startIndex' >= Len(text)
       /\ \A i \in 1..Len(chunks') : chunks'[i].index = i - 1]_vars

\* C1 witness: a document longer than chunkSize was chunked to the end with an
\* overlap that is at least chunkSize, in more than one chunk.
ServerChunkingWitness ==
    /\ variant = "server"
    /\ cpc = "done"
    /\ chunkOverlap >= chunkSize
    /\ Len(text) > chunkSize
    /\ Len(chunks) >= 2

\* The node sequence THINK (ACT THINK)^k DONE.
NodeSequenceOf(k) ==
    [i \in 1..(2 * k + 2) |->
        IF i = 2 * k + 2 THEN "__end__" ELSE IF i % 2 = 1 THEN "agent" ELSE "tools"]

AllToolsSucceeded == \A i \in ToolMessages : messages[i].content = "json"

\* C2: a turn in which the model answered k THINK steps with tool calls, all
\* of which succeeded, and then answered with no tool calls, has visited
\* exactly THINK (ACT THINK)^k DONE.
NodeSequence ==
    (GraphDone /\ AllToolsSucceeded) => trace = NodeSequenceOf(Cardinality(AnswersWithCalls))

\* C2, for the turns in which no answer of the model carries a tool-call list
\* that is present but empty.
NodeSequenceNoEmptyList ==
    (GraphDone /\ AllToolsSucceeded
        /\ \A i \in ModelAnswers : messages[i].has_tool_calls => i \in AnswersWithCalls)
    => trace = NodeSequenceOf(Cardinality(AnswersWithCalls))

\* C3: after a THINK step the graph is at ACT exactly when the last message
\* carries one or more tool calls; with no tool call, an empty list included,
\* it is at DONE.
ActOnlyOnPendingCalls ==
    /\ pc = "tools" => Len(LastMessage.tool_calls) >= 1
    /\ pc = "end" => Len(LastMessage.tool_calls) = 0

RetrievedDocuments ==
    UNION {Range(messages[i].json.documents) :
              i \in {t \in ToolMessages : messages[t].name \in RetrievalNames
                                          /\ messages[t].content = "json"}}

\* C6: when the turn has reached DONE, every chunk a retrieval call of the turn
\* returned is in the sources of the response (three chunks give three sources).
SourcesListed ==
    (pc = "done" /\ response.kind = "answer") =>
        /\ RetrievedDocuments \subseteq Range(response.sources)
        /\ Len(response.sources) = Cardinality(RetrievedDocuments)

\* The generate_image calls of the turn whose tool returned an image.
ImageCalls ==
    {k \in 1..Len(TurnToolCalls) :
        /\ TurnToolCalls[k].name = "generate_image"
        /\ \E i \in ToolMessages :
              /\ messages[i].tool_call_id = TurnToolCalls[k].id
              /\ messages[i].content = "json"}

NoRetrievalCall == \A k \in 1..Len(TurnToolCalls) : TurnToolCalls[k].name \notin RetrievalNames

\* The response carries the image of a generate_image call, read from the tool
\* message with the id of that call.
ImageFromMatchingResult ==
    /\ response.imageUrl # 0
    /\ response.sources = <<>>
    /\ \E k \in ImageCalls : \E i \in ToolMessages :
          /\ messages[i].tool_call_id = TurnToolCalls[k].id
          /\ messages[i].name = "generate_image"
          /\ response.imageUrl = messages[i].json.imageUrl
          /\ response.imageMetadata = messages[i].json.prompt

UnknownToolFallsBack ==
    \A i \in ToolMessages :
        GetToolByName(messages[i].name) = 0 => messages[i].content = "json"

\* C9: for content.length <= chunkSize chunkDocument returns exactly one
\* chunk, with index 0, startChar 0 and endChar content.length - 1.
SmallDocumentSingleChunk ==
    (cpc = "done" /\ Len(text) <= chunkSize) =>
        /\ Len(chunks) = 1
        /\ chunks[1].index = 0
        /\ chunks[1].startChar = 0
        /\ chunks[1].endChar = Len(text) - 1

\* C9 witness: a non-empty document no longer than chunkSize has been chunked.
SmallDocumentWitness ==
    /\ cpc = "done"
    /\ Len(text) >= 1
    /\ Len(text) <= chunkSize
    /\ Len(chunks) = 1

\* C10: an empty document yields zero chunks.
EmptyDocumentNoChunks ==
    (cpc = "done" /\ text = <<>>) => chunks = <<>>

CoveredPositions ==
    {p \in 0..(Len(text) - 1) :
        \E i \in 1..Len(chunks) : chunks[i].startChar <= p /\ p <= chunks[i].endChar}

\* The raw substring of the content a chunk's range names.
RawSubstring(c) == Substring(text, c.startChar, c.endChar + 1)

\* C12 as stated: when chunkDocument has returned, the ranges of the chunks
\* cover every character position of the document, each range starts no
\* later than the position after the end of the range before it (no gap), so
\* that the raw substrings put the content together again.
RangesCoverDocument ==
    cpc = "done" =>
        /\ CoveredPositions = 0..(Len(text) - 1)
        /\ \A i \in 2..Len(chunks) : chunks[i].startChar <= chunks[i - 1].endChar + 1

\* C12 amended: when chunkDocument has returned, the ranges of the chunks
\* cover every position of the document that holds a non-whitespace
\* character (a window of nothing but whitespace emits no chunk and leaves a
\* gap), they come in index order with growing startChar, and the content of
\* every chunk is, up to trimming, the raw substring its range names.
RangesCoverText ==
    cpc = "done" =>
        /\ \A p \in 0..(Len(text) - 1) :
              ~IsWhitespace(text[p + 1]) => p \in CoveredPositions
        /\ \A i \in 2..Len(chunks) : chunks[i - 1].startChar < chunks[i].startChar
        /\ \A i \in 1..Len(chunks) : Trim(chunks[i].content) = Trim(RawSubstring(chunks[i]))

\* C12 witness: a document was chunked by the loop into two or more chunks
\* with a whitespace-only window between two of them left uncovered.
RangesCoverWitness ==
    /\ cpc = "done"
    /\ Len(text) > chunkSize
    /\ Len(chunks) >= 2
    /\ CoveredPositions # 0..(Len(text) - 1)
    /\ \E i \in 2..Len(chunks) : chunks[i].startChar > chunks[i - 1].endChar + 1

\* C13: chunking the 45,000 characters of the upload example with the default
\* config gives 35 chunks, give or take a tolerance of 5, each of at most 1500
\* characters plus a slack of 50: the chunks never come to more than 40, and
\* when chunkDocument returns they are no fewer than 30.
HandbookChunkCount ==
    /\ Len(chunks) <= 35 + 5
    /\ cpc = "done" => Len(chunks) >= 35 - 5
    /\ \A i \in 1..Len(chunks) : Len(chunks[i].content) <= DefaultChunkSize + 50

\* The windows of the example up to the one that first reaches the end of the
\* content give 35 chunks, within the same tolerance.
HandbookWindowsToEnd ==
    /\ \A i \in 1..Len(chunks) : chunks[i].endChar < HandbookLength - 1 => i <= 35 + 5
    /\ cpc = "done" => \E i \in (35 - 5)..(35 + 5) : chunks[i].endChar = HandbookLength - 1

\* C14: when embedTexts returns, the result has as many vectors as there were
\* texts and its i-th vector is the embedding of the i-th text; for no texts
\* the result is empty.
EmbedPreservesInput ==
    epc = "returned" =>
        /\ Len(embeddings) = Len(texts)
        /\ \A k \in 1..Len(texts) : embeddings[k].of = texts[k]

\* C14, for the lists in which no text is empty after trimming.
EmbedPreservesValidInput ==
    (epc = "returned" /\ validTexts = texts) =>
        /\ Len(embeddings) = Len(texts)
        /\ \A k \in 1..Len(texts) : embeddings[k].of = texts[k]

\* The records of the uploaded document the index holds.
UploadedRecords == {r \in pineconeIndex : r.documentId = NewDocumentId}

\* The capability has answered a batch with vectors of a length other than
\* the configured one.
DimensionMismatch == \E k \in 1..Len(embeddings) : embeddings[k].dim # Dimensions

\* C15: every vector the capability returns is checked against the
\* configured dimension: embedTexts never returns a vector of another length
\* (it fails instead), and in an upload in which a vector of another length
\* came back no chunk of the document is written to the index.
DimensionValidated ==
    /\ epc = "returned" => ~DimensionMismatch
    /\ DimensionMismatch => UploadedRecords = {}

EmptyQueryRejected ==
    (lastOp.op = "retrieve_documents" /\ TrimText(lastOp.query) = "") =>
        /\ lastOp.result \in {"invalid input", "empty query"}
        /\ indexCalls = 0

\* C17, without a filter.
EmptyQueryRejectedUnfiltered ==
    (lastOp.op = "retrieve_documents" /\ TrimText(lastOp.query) = ""
        /\ ~UsesFilteredSearch(lastOp.filter)) =>
        /\ lastOp.result \in {"invalid input", "empty query"}
        /\ indexCalls = 0

\* ---------------------------------------------------------------- C20
\* A line starts with a prefix when its first characters are the prefix's.
HasPrefix(line, prefix) ==
    /\ Len(line) >= Len(prefix)
    /\ \A i \in 1..Len(prefix) : line[i] = prefix[i]

IsTypedLine(line) == HasPrefix(line, UserPrefix) \/ HasPrefix(line, AssistantPrefix)

HasText(line) == \E i \in 1..Len(line) : ~IsWhitespace(line[i])

\* The lines of the context that have text, and those of them that start
\* with user: or assistant:, in the order of the context.
NonBlankLines == SelectSeq(Split(context, LF), HasText)
TypedLines == SelectSeq(NonBlankLines, IsTypedLine)

\* C20: when the messages are handed to the agent, there is one message per
\* non-blank context line that starts with user: or assistant:, in the order
\* of the lines, a human message for user: and an AI message for assistant:,
\* whose content is the rest of the line, trimmed; the other lines have left
\* no message; the current user message comes after them and is the last
\* message. A malformed line is passed over like any other: after any number
\* of lines the loop has pushed one message per typed line among them.
ContextInjected ==
    /\ ctxPc = "lines" =>
        /\ lineI \in 1..(Len(NonBlankLines) + 1)
        /\ Len(turnMessages) =
              Len(SelectSeq(SubSeq(NonBlankLines, 1, lineI - 1), IsTypedLine))
    /\ ctxPc = "invoke" =>
        /\ Len(turnMessages) = Len(TypedLines) + 1
        /\ \A k \in 1..Len(TypedLines) :
              LET line == TypedLines[k]
              IN  IF HasPrefix(line, UserPrefix)
                  THEN /\ turnMessages[k].type = "human"
                       /\ turnMessages[k].content = Trim(SubSeq(line, 6, Len(line)))
                  ELSE /\ turnMessages[k].type = "ai"
                       /\ turnMessages[k].content = Trim(SubSeq(line, 11, Len(line)))
        /\ turnMessages[Len(turnMessages)] = HumanMessage(currentMessage)

\* C20 witness: the messages have been handed over for a context with a
\* user: line and an assistant: line and, between them, a line with text that
\* starts with neither.
ContextInjectedWitness ==
    /\ ctxPc = "invoke"
    /\ Len(turnMessages) = 3
    /\ turnMessages[1].type = "human"
    /\ turnMessages[2].type = "ai"
    /\ \E i, j, k \in 1..Len(NonBlankLines) :
          /\ i < j /\ j < k
          /\ HasPrefix(NonBlankLines[i], UserPrefix)
          /\ ~IsTypedLine(NonBlankLines[j])
          /\ HasPrefix(NonBlankLines[k], AssistantPrefix)

\* ---------------------------------------------------------------- C21
\* The calls among those of uploadDocument that are stages of the write path.
WritePathStages == {"cleanText", "chunkDocument", "embedDocumentChunks", "storeDocumentChunks"}
StagesRun == SelectSeq(uploadCalls, LAMBDA c : c \in WritePathStages)

\* C21: an upload that has answered with success has run the Normalizer
\* (cleanText), then the Chunker, then the Embedding Batcher, then the write
\* of the Vector Index Adapter, each once and in this order, and an upload
\* still running or failed has run a prefix of these stages.
WritePathOrder ==
    LET all == <<"cleanText", "chunkDocument", "embedDocumentChunks", "storeDocumentChunks">>
    IN  /\ \E n \in 0..Len(all) : StagesRun = SubSeq(all, 1, n)
        /\ upc = "done" /\ uploadResponse.success => StagesRun = all

\* The same for the stages after the Normalizer: chunking, embedding and the
\* write run in this order, none is skipped, none starts before the one
\* before it has returned.
WritePathOrderAfterExtraction ==
    LET all == <<"chunkDocument", "embedDocumentChunks", "storeDocumentChunks">>
    IN  /\ \E n \in 0..Len(all) : StagesRun = SubSeq(all, 1, n)
        /\ upc = "done" /\ uploadResponse.success => StagesRun = all
        /\ upc = "embedding" => StagesRun = <<"chunkDocument">>
        /\ upc = "store" => StagesRun = <<"chunkDocument", "embedDocumentChunks">>

\* ---------------------------------------------------------------- C22
\* The graph has run to its end, or the model capability has failed in it.
RunEnded == trace # <<>> /\ trace[Len(trace)] = "__end__"
RunFailed == pc = "done" /\ trace # <<>> /\ trace[Len(trace)] # "__end__"

\* The positions among answers of the AI messages with text.
WithText(answers) == {i \in answers : TrimText(messages[i].content) # ""}

\* What chatCompletion returns, the assistant messages that count being
\* those at the positions answers: one response and no more, a failure with
\* an error value for invalid input, for a failed run and for a run without
\* assistant text, and otherwise a success with the text of the last
\* assistant message that has any.
OutcomeOver(answers) ==
    /\ pc # "done" => response = NoResponse
    /\ pc = "done" =>
        /\ response.kind # "none"
        /\ ~request.valid => ~response.success /\ response.error # ""
        /\ RunFailed => ~response.success /\ response.error # ""
        /\ RunEnded /\ WithText(answers) = {} => ~response.success /\ response.error # ""
        /\ RunEnded /\ WithText(answers) # {} =>
              /\ response.success
              /\ \E i \in WithText(answers) :
                    /\ \A j \in WithText(answers) : j <= i
                    /\ response.message = messages[i].content

\* C22: chatCompletion returns exactly one response and throws nothing:
\* success = false with an error value for invalid input, for a failure of
\* the model and for a run whose assistant messages have no text; success =
\* true with the text of the run's last assistant message that has text
\* otherwise.
ChatCompletionOutcome == OutcomeOver(ModelAnswers)

\* The same, the assistant messages of the conversation context counted
\* with those of the run.
ChatCompletionOutcomeWithHistory ==
    OutcomeOver({i \in 1..Len(messages) : messages[i].type = "ai"})

\* ---------------------------------------------------------------- C23
\* The batches handed to the capability so far, and their texts in one list.
BatchesSent ==
    LET requests == SelectSeq(embedLog, LAMBDA e : e.event = "request")
    IN  [k \in 1..Len(requests) |-> requests[k].batch]

RECURSIVE Concat(_)
Concat(lists) == IF lists = <<>> THEN <<>> ELSE Head(lists) \o Concat(Tail(lists))

\* The texts that are not blank, in input order.
NonEmptyTexts == SelectSeq(texts, LAMBDA t : t \notin BlankTexts)

CandidateEnd(start) == Min(start + chunkSize, Len(text))

\* sep lies in the window: it starts after start and ends at or before the
\* candidate end.
InWindow(sep, start) ==
    \E p \in (start + 1)..(CandidateEnd(start) - Len(sep)) :
        SubSeq(text, p + 1, p + Len(sep)) = sep

\* The chunk that ends at position end (exclusive) ends with sep.
EndsWith(sep, end) == end >= Len(sep) /\ SubSeq(text, end - Len(sep) + 1, end) = sep

\* C24: a chunk cut by the loop before the end of the content ends at a
\* separator at least as strong as the strongest one that lies in its
\* window: at a paragraph break when the window holds one; at a line break
\* or stronger when it holds a line break; then a sentence end, then a space.
\* It ends with no separator (a hard cut) only when the window holds none.
SeparatorPriority ==
    Len(text) > chunkSize =>
        \A i \in 1..Len(chunks) :
            LET start == chunks[i].startChar
                end == chunks[i].endChar + 1
                strong == {k \in 1..(Len(Separators) - 1) : InWindow(Separators[k], start)}
            IN  (CandidateEnd(start) < Len(text) /\ strong # {}) =>
                    \E k \in strong :
                        /\ \A j \in strong : k <= j
                        /\ \E j \in 1..k : EndsWith(Separators[j], end)

\* What holds instead: the empty separator, tried last, is found at the
\* candidate end, so no separator ever ends a chunk before the candidate end.
BreakNeverBeforeCandidate ==
    Len(text) > chunkSize =>
        \A i \in 1..Len(chunks) : chunks[i].endChar + 1 >= CandidateEnd(chunks[i].startChar)

\* ---------------------------------------------------------------- C25
\* The documents and configurations of C25, in the copy of fileProcessing.ts.
ClientLoopCase == variant = "client" /\ Len(text) > chunkSize /\ chunkOverlap < chunkSize

\* C25: in the copy of chunkDocument in fileProcessing.ts, for every document
\* longer than chunkSize and every chunkOverlap below chunkSize, the loop
\* terminates: every iteration moves startIndex strictly forward, so that it
\* reaches content.length.
ClientChunkingTerminates ==
    [][(ClientLoopCase /\ cpc = "loop") => startIndex' > startIndex]_vars

\* What holds instead: with an overlap of 0 every iteration moves startIndex
\* forward, and with an overlap above 0 the loop is never left.
ClientChunkingTerminatesNoOverlap ==
    [][(ClientLoopCase /\ chunkOverlap = 0 /\ cpc = "loop") => startIndex' > startIndex]_vars

ClientLoopNeverEnds == (ClientLoopCase /\ chunkOverlap > 0) => cpc # "done"

\* ---------------------------------------------------------------- C26
\* C26: between two calls of clearCache the connection to the vector store is
\* established at most once, whatever calls of initializeVectorStore overlap;
\* a store is cached exactly when a connection has been established since
\* the last clearCache, so that a failed attempt leaves nothing cached.
ConnectedAtMostOnce ==
    /\ established <= 1
    /\ vectorStore = "null" <=> established = 0

\* What holds instead: the connection is established more than once only
\* when two calls have been connecting at the same time.
ConnectedOnceUnlessOverlapped ==
    /\ established <= 1 \/ overlapped
    /\ vectorStore = "null" <=> established = 0

\* ---------------------------------------------------------------- C27
\* C27: when embedDocumentChunks has returned, every chunk it returns has an
\* embedding, and it is the embedding of that chunk's content, blank
\* contents among the chunks or not.
ChunkEmbeddingsAligned ==
    (upc = "store" /\ Len(docChunks) > 0) =>
        /\ Len(chunksWithEmbeddings) = Len(docChunks)
        /\ \A k \in 1..Len(docChunks) :
              /\ chunksWithEmbeddings[k].content = docChunks[k]
              /\ chunksWithEmbeddings[k].embedding # NoVector
              /\ chunksWithEmbeddings[k].embedding.of = docChunks[k]

\* The same for the lists in which no content is blank.
ChunkEmbeddingsAlignedNoBlank ==
    (\A k \in 1..Len(docChunks) : docChunks[k] \notin BlankTexts) => ChunkEmbeddingsAligned

\* ---------------------------------------------------------------- C28
\* Chunk i covers nothing that the chunk before it does not cover.
IsRedundant(i) ==
    /\ chunks[i - 1].startChar <= chunks[i].startChar
    /\ chunks[i].endChar <= chunks[i - 1].endChar

\* No chunk lies within the chunk before it, and a chunk that reaches the
\* end of the content is the last one.
NoRedundantChunkIn(case) ==
    case =>
        /\ \A i \in 2..Len(chunks) : ~IsRedundant(i)
        /\ \A i \in 1..(Len(chunks) - 1) : chunks[i].endChar < Len(text) - 1

\* C28: in the server copy, for every document longer than chunkSize and
\* every chunkOverlap below chunkSize, no chunk's range lies within the range
\* of the chunk emitted before it, and no chunk follows a chunk whose range
\* reaches the end of the content.
NoRedundantChunk ==
    NoRedundantChunkIn(variant = "server" /\ Len(text) > chunkSize /\ chunkOverlap < chunkSize)

\* The same for an overlap of 0.
NoRedundantChunkNoOverlap ==
    NoRedundantChunkIn(variant = "server" /\ Len(text) > chunkSize /\ chunkOverlap = 0)

\* ---------------------------------------------------------------- C29
\* C29: every chunk chunkDocument emits, in either copy and with whatever
\* break, covers at most chunkSize characters of the document.
ChunkWithinSize ==
    \A i \in 1..Len(chunks) : chunks[i].endChar - chunks[i].startChar + 1 <= chunkSize

\* What holds instead: a chunk covers at most chunkSize characters and the
\* length of the longest separator.
ChunkWithinSizeAndSeparator ==
    \A i \in 1..Len(chunks) :
        \E k \in 1..Len(Separators) :
            chunks[i].endChar - chunks[i].startChar + 1 <= chunkSize + Len(Separators[k])

\* ---------------------------------------------------------------- C30
\* The messages chatCompletion has parsed from the context are those of
\* msgs: as many, in the same order, a human message for the role user and
\* an AI message for assistant, with the same content.
ParsedAs(msgs) ==
    /\ Len(turnMessages) = Len(msgs) + 1
    /\ \A k \in 1..Len(msgs) :
          /\ turnMessages[k].type = (IF msgs[k].role = "user" THEN "human" ELSE "ai")
          /\ turnMessages[k].content = msgs[k].content

\* C30: the context the chat client makes of its recent messages, parsed by
\* chatCompletion, gives the same messages again: the same number, roles,
\* contents and order, contents of several lines included.
ContextRoundTrip == ctxPc = "invoke" => ParsedAs(recentMessages)

\* The same for messages whose content is one line without whitespace at its
\* ends.
ContextRoundTripPlainLines ==
    (\A k \in 1..Len(recentMessages) :
        LET c == recentMessages[k].content
        IN  Trim(c) = c /\ \A i \in 1..Len(c) : c[i] # LF)
    => ContextRoundTrip
====
